---- MODULE Spec2Model ----
(***************************************************************************)
(* Model of voice_clone.py: the command-line entry point main, the preset  *)
(* table, the sentence splitter and resumable long-text pipeline of        *)
(* process_long_text, and the single-shot path clone_voice.                *)
(*                                                                         *)
(* Texts are sequences of one-character strings.  Floating point generation*)
(* parameters are held in hundredths (0.75 is 75).  An optional value is   *)
(* None (the empty tuple) or Some(v) (a one-element tuple).                *)
(***************************************************************************)
EXTENDS Integers, Sequences, FiniteSets, TLC

VARIABLES
    args,              \* the parsed command line and the files it names
    run,               \* ordinal of the current invocation of the program
    pc,                \* position of the current invocation
    tts,               \* main's local `tts`: whether load_model() has returned
    text,              \* main's local `text`
    gen_params,        \* main's local `gen_params`
    sentences,         \* process_long_text's `sentences`
    idx,               \* 1-based position of the segment loop (i + 1)
    temp_wav_files,    \* process_long_text's `temp_wav_files` (part numbers)
    calls,             \* tts.tts_to_file calls made by the current invocation
    parts_dir_exists,  \* whether <outputDir>/voice_parts exists
    mkdirs,            \* os.makedirs(parts_dir) calls of the current invocation
    parts,             \* voice_parts/part_NNNN.wav: None, Some(r) written by run
                       \* r, or Empty(r) or Truncated(r) left by a terminated run r
    manifest,          \* voice_parts/input_list.txt: None or Some(part numbers)
    output,            \* the output file: None, or Some(r) written by run r
    join_result,       \* outcome of the ffmpeg concat call of this invocation
    exit_code,         \* None while running, Some(code) once exited
    staged_at_start    \* history: the parts that existed when the invocation began

vars == <<args, run, pc, tts, text, gen_params, sentences, idx, temp_wav_files,
          calls, parts_dir_exists, mkdirs, parts, manifest, output,
          join_result, exit_code, staged_at_start>>

(***************************************************************************)
(* Bounds of the model.                                                    *)
(***************************************************************************)
\* longest text of the segmenter specification, in blocks
MaxBlocks == 4
\* longest text of the pipeline specification, in blocks
MaxPipeBlocks == 3
\* invocations of the program on one output path
MaxRuns == 2
\* part files the staging directory is tracked for: one per block
MaxParts == MaxPipeBlocks

(***************************************************************************)
(* Program constants.                                                      *)
(***************************************************************************)
\* main: if len(text) > 500
LONG_TEXT_THRESHOLD == 500
\* process_long_text: len(current_chunk) >= 20
SPLIT_MIN_LENGTH == 20
\* process_long_text: max_chunk_length: int = 250 (declared, never read)
max_chunk_length == 250
\* argparse: parser.error() exits with status 2
ARGPARSE_ERROR_STATUS == 2

None == << >>
Some(v) == <<v>>

(***************************************************************************)
(* Strings.                                                                *)
(***************************************************************************)
\* the characters str.strip() removes, among those the model's texts use
Whitespace == {" ", "\n", "\t"}

\* the membership test `char in '.!?'`
SentenceEnd == {".", "!", "?"}

\* str.strip(): drop leading and trailing whitespace; the argument is taken
\* as the one value v of a set, so that it is evaluated once
Strip(s) ==
    CHOOSE stripped \in
        {LET n == Len(v)
             IsSpace(k) == v[k] \in Whitespace
         IN  IF \A k \in 1..n : IsSpace(k) THEN << >>
             ELSE LET first == CHOOSE k \in 1..n :
                                   ~IsSpace(k) /\ \A j \in 1..(k - 1) : IsSpace(j)
                      cut == CHOOSE c \in 0..(n - 1) :
                                 ~IsSpace(n - c) /\ \A j \in 0..(c - 1) : IsSpace(n - j)
                  IN  SubSeq(v, first, n - cut)
         : v \in {s}} : TRUE

Repeat(c, n) == [k \in 1..n |-> c]

RECURSIVE Flatten(_)
Flatten(ss) == IF ss = << >> THEN << >> ELSE Head(ss) \o Flatten(Tail(ss))

RECURSIVE SeqsUpTo(_, _)
\* all sequences over S of length at most n
SeqsUpTo(S, n) ==
    IF n = 0 THEN {<< >>}
    ELSE LET shorter == SeqsUpTo(S, n - 1)
         IN  shorter \cup {Append(s, x) : s \in {t \in shorter : Len(t) = n - 1}, x \in S}

(***************************************************************************)
(* The sentence splitter of process_long_text.                             *)
(***************************************************************************)
\* one iteration of `for char in text`
ScanStep_DropTerminator(st, char) ==
    IF char \in SentenceEnd /\ Len(st.current_chunk) + 1 >= SPLIT_MIN_LENGTH
    THEN [sentences |-> Append(st.sentences, Strip(st.current_chunk)),
          current_chunk |-> << >>]
    ELSE [sentences |-> st.sentences, current_chunk |-> Append(st.current_chunk, char)]

ScanStep(st, char) ==
    LET current_chunk == Append(st.current_chunk, char)
    IN  IF char \in SentenceEnd /\ Len(current_chunk) >= SPLIT_MIN_LENGTH
        THEN [sentences |-> Append(st.sentences, Strip(current_chunk)),
              current_chunk |-> << >>]
        ELSE [sentences |-> st.sentences, current_chunk |-> current_chunk]

RECURSIVE Scan(_, _, _, _)
\* the loop over text[lo..hi], left to right, from loop state st; the range is
\* halved at mid and the left half is evaluated, as the one value of a set,
\* before the right half starts from it
Scan(s, lo, hi, st) ==
    IF lo > hi THEN st
    ELSE IF lo = hi THEN ScanStep(st, s[lo])
    ELSE CHOOSE right \in
             UNION {{Scan(s, mid + 1, hi, left) : left \in {Scan(s, lo, mid, st)}}
                    : mid \in {(lo + hi) \div 2}} : TRUE

\* lines 176-185: the list `sentences` built from `text`
SplitSentences(s) ==
    CHOOSE sentences_ \in
        {IF Strip(st.current_chunk) # << >>
         THEN Append(st.sentences, Strip(st.current_chunk))
         ELSE st.sentences
         : st \in {Scan(s, 1, Len(s),
                         [sentences |-> << >>, current_chunk |-> << >>])}} : TRUE

(***************************************************************************)
(* Generation presets and their resolution (main, lines 348-360).          *)
(***************************************************************************)
GENERATION_PRESETS ==
    [stable     |-> [temperature |-> 10, repetition_penalty |-> 2000, speed |-> 100],
     neutral    |-> [temperature |-> 75, repetition_penalty |-> 1000, speed |-> 100],
     expressive |-> [temperature |-> 85, repetition_penalty |-> 500,  speed |-> 100],
     extreme    |-> [temperature |-> 95, repetition_penalty |-> 200,  speed |-> 100]]

\* choices of --preset
PresetNames == {"stable", "neutral", "expressive", "extreme"}

ResolveParams_PresetWins(a) ==
    LET base == GENERATION_PRESETS["neutral"]
        t == IF a.temperature # None
             THEN [base EXCEPT !.temperature = a.temperature[1]] ELSE base
        r == IF a.repetition_penalty # None
             THEN [t EXCEPT !.repetition_penalty = a.repetition_penalty[1]] ELSE t
        s == IF a.speed # None THEN [r EXCEPT !.speed = a.speed[1]] ELSE r
    IN  IF a.preset # None THEN GENERATION_PRESETS[a.preset[1]] ELSE s

ResolveParams(a) ==
    LET neutral == GENERATION_PRESETS["neutral"]
        base == IF a.preset # None THEN GENERATION_PRESETS[a.preset[1]] ELSE neutral
        t == IF a.temperature # None
             THEN [base EXCEPT !.temperature = a.temperature[1]] ELSE base
        r == IF a.repetition_penalty # None
             THEN [t EXCEPT !.repetition_penalty = a.repetition_penalty[1]] ELSE t
    IN  IF a.speed # None THEN [r EXCEPT !.speed = a.speed[1]] ELSE r

(***************************************************************************)
(* validate_reference_audio (lines 37-50).                                 *)
(***************************************************************************)
supported_formats == {".wav", ".mp3", ".flac", ".ogg", ".m4a"}

\* str.lower() on the suffixes the model uses
Lower(ext) == IF ext = ".WAV" THEN ".wav" ELSE ext

validate_reference_audio_AnySuffix(ref) == ref.exists

validate_reference_audio(ref) ==
    /\ ref.exists
    /\ Lower(ref.ext) \in supported_formats

(***************************************************************************)
(* Inputs.                                                                 *)
(***************************************************************************)
Letters(n) == Repeat("a", n)

\* a sentence of exactly SPLIT_MIN_LENGTH characters
Sent == Append(Letters(19), ".")

\* a sentence exactly as long as the long-text threshold
Para == Append(Letters(499), ".")

\* a run of letters without a sentence end
Pad == Letters(480)

\* building blocks of the pipeline's texts
PipeBlocks == {Para, Sent, <<" ">>}

\* building blocks of the segmenter's texts
SegBlocks == {Pad, Letters(18), <<".">>, <<"?">>, <<" ">>}

PipelineTexts == {Flatten(bs) : bs \in SeqsUpTo(PipeBlocks, MaxPipeBlocks)}

SegmenterTexts == {Flatten(bs) : bs \in SeqsUpTo(SegBlocks, MaxBlocks)}

NoOverrides == [preset |-> None, temperature |-> None,
                repetition_penalty |-> None, speed |-> None]

GoodReference == Some([exists |-> TRUE, ext |-> ".wav"])

\* --reference: absent, or a path with the file's existence and suffix
References ==
    {None, GoodReference,
     Some([exists |-> FALSE, ext |-> ".wav"]),
     Some([exists |-> TRUE, ext |-> ".txt"]),
     Some([exists |-> TRUE, ext |-> ".WAV"])}

\* --text_file: absent, or a path with the file's state and content
TextFiles ==
    {None,
     Some([state |-> "missing", content |-> << >>]),
     Some([state |-> "unreadable", content |-> << >>]),
     Some([state |-> "ok", content |-> <<" ", "\n">>]),
     Some([state |-> "ok", content |-> <<" ">> \o Sent \o <<"\n">>]),
     Some([state |-> "ok", content |-> <<" ">> \o Para \o Sent \o <<"\n">>])}

CommandLine(ref, txt, file, opts) ==
    [reference |-> ref, text |-> txt, text_file |-> file, preset |-> opts.preset,
     temperature |-> opts.temperature,
     repetition_penalty |-> opts.repetition_penalty, speed |-> opts.speed]

\* command lines of the pipeline specification: every text with good
\* arguments, and every combination of argument faults with one text
PipelineArgs ==
    {CommandLine(GoodReference, Some(t), None, NoOverrides) : t \in PipelineTexts}
    \cup {CommandLine(r, t, f, o) :
            r \in References, t \in {None, Some(Sent)}, f \in TextFiles,
            o \in {NoOverrides,
                   [NoOverrides EXCEPT !.preset = Some("expressive"),
                                       !.speed = Some(150)],
                   [NoOverrides EXCEPT !.preset = Some("custom")]}}

(***************************************************************************)
(* State shared by the specifications.  A file written before the first    *)
(* modelled invocation carries run number 0.                               *)
(***************************************************************************)
PartIds == 1..MaxParts

\* a part file left by an invocation that was terminated inside tts_to_file:
\* the file has been created and holds nothing yet, or part of the audio
Empty(r) == <<r, "empty">>
Truncated(r) == <<r, "truncated">>

\* os.path.exists(part_filename)
PartExists(k) == parts[k] # None

\* the part file holds the whole audio of a synthesis call that returned
PartComplete(k) == PartExists(k) /\ Len(parts[k]) = 1

\* the locals of an invocation that has not started
FreshLocals ==
    /\ pc = "parse_args"
    /\ tts = "unloaded"
    /\ text = << >>
    /\ gen_params = GENERATION_PRESETS["neutral"]
    /\ sentences = << >>
    /\ idx = 1
    /\ temp_wav_files = << >>
    /\ calls = << >>
    /\ mkdirs = 0
    /\ join_result = "none"
    /\ exit_code = None

\* an output directory without staging directory
NoStagingDir ==
    /\ parts_dir_exists = FALSE
    /\ parts = [k \in PartIds |-> None]
    /\ manifest = None
    /\ staged_at_start = {}

\* the first invocation finds no staging directory; a file may already be at
\* the output path
Init ==
    /\ args \in PipelineArgs
    /\ run = 1
    /\ FreshLocals
    /\ NoStagingDir
    /\ output \in {None, Some(0)}

locals == <<tts, text, gen_params, sentences, idx, temp_wav_files, calls, mkdirs,
            join_result>>
disk == <<parts_dir_exists, parts, manifest, output>>

\* sys.exit(code)
Exit(code) ==
    /\ pc' = "exited"
    /\ exit_code' = Some(code)

\* truth value of an optional string argument
Given(opt) == opt # None /\ opt[1] # << >>

(***************************************************************************)
(* main, lines 316-341: argument and input validation.                     *)
(***************************************************************************)
\* lines 316-323: parse_args(), which refuses a missing --reference and a
\* --preset outside its choices (lines 262, 298-300), and parser.error() exit
\* with argparse's status
ParseArgs ==
    /\ pc = "parse_args"
    /\ IF args.reference = None
       THEN Exit(ARGPARSE_ERROR_STATUS)
       ELSE IF args.preset # None /\ args.preset[1] \notin PresetNames
       THEN Exit(ARGPARSE_ERROR_STATUS)
       ELSE IF ~Given(args.text) /\ args.text_file = None
       THEN Exit(ARGPARSE_ERROR_STATUS)
       ELSE IF Given(args.text) /\ args.text_file # None
       THEN Exit(ARGPARSE_ERROR_STATUS)
       ELSE pc' = "read_text" /\ UNCHANGED exit_code
    /\ UNCHANGED <<args, run, locals, disk, staged_at_start>>

\* lines 325-337; open() on an unreadable file raises out of main, which
\* ends the interpreter with status 1
ReadText ==
    /\ pc = "read_text"
    /\ IF args.text_file # None
       THEN IF args.text_file[1].state # "ok"
            THEN Exit(1) /\ UNCHANGED text
            ELSE LET t == Strip(args.text_file[1].content)
                 IN  /\ text' = t
                     /\ IF t = << >> THEN Exit(1)
                        ELSE pc' = "validate_reference" /\ UNCHANGED exit_code
       ELSE LET t == IF args.text = None THEN << >> ELSE args.text[1]
            IN  /\ text' = t
                /\ IF t = << >> THEN Exit(1)
                   ELSE pc' = "validate_reference" /\ UNCHANGED exit_code
    /\ UNCHANGED <<args, run, tts, gen_params, sentences, idx, temp_wav_files,
                   calls, mkdirs, join_result, disk, staged_at_start>>

\* lines 339-341
ValidateReference ==
    /\ pc = "validate_reference"
    /\ IF validate_reference_audio(args.reference[1])
       THEN pc' = "resolve_params" /\ UNCHANGED exit_code
       ELSE Exit(1)
    /\ UNCHANGED <<args, run, locals, disk, staged_at_start>>

\* lines 348-360; the creation of the output file's directory (lines 343-346)
\* is left out
DetermineParams ==
    /\ pc = "resolve_params"
    /\ gen_params' = ResolveParams(args)
    /\ pc' = "load_model"
    /\ UNCHANGED <<args, run, tts, text, sentences, idx, temp_wav_files, calls,
                   mkdirs, join_result, exit_code, disk, staged_at_start>>

\* lines 366-370: load_model() returns, or raises into main's except clause;
\* auto_convert_to_wav returns the reference unchanged for a .wav suffix
LoadModel ==
    /\ pc = "load_model"
    /\ \/ tts' = "loaded" /\ pc' = "dispatch"
       \/ tts' = tts /\ pc' = "exit_check"
    /\ UNCHANGED <<args, run, text, gen_params, sentences, idx, temp_wav_files,
                   calls, mkdirs, join_result, exit_code, disk, staged_at_start>>

(***************************************************************************)
(* The synthesis capability tts.tts_to_file: it writes the file and        *)
(* returns, or raises and writes nothing.                                  *)
(***************************************************************************)
\* a call record: file_path 0 is the output path, k > 0 is part_k; seg 0 is
\* the whole text, j > 0 is sentences[j]
Call(path, seg, ok) ==
    [file_path |-> path, seg |-> seg, params |-> gen_params, returned |-> ok]

(***************************************************************************)
(* main, lines 372-376.                                                    *)
(***************************************************************************)
Dispatch_AtThreshold == IF Len(text) >= LONG_TEXT_THRESHOLD
                        THEN "process_long_text" ELSE "clone_voice"

\* the branch on len(text)
Dispatch == IF Len(text) > LONG_TEXT_THRESHOLD
            THEN "process_long_text" ELSE "clone_voice"

ChoosePath ==
    /\ pc = "dispatch"
    /\ pc' = Dispatch
    /\ UNCHANGED <<args, run, locals, exit_code, disk, staged_at_start>>

\* clone_voice (lines 110-146), called from main or from process_long_text:
\* one synthesis call on the whole text against the output path; an
\* exception reaches main's except clause
CloneVoice ==
    /\ pc = "clone_voice"
    /\ \E ok \in BOOLEAN :
         /\ calls' = Append(calls, Call(0, 0, ok))
         /\ output' = IF ok THEN Some(run) ELSE output
    /\ pc' = "exit_check"
    /\ UNCHANGED <<args, run, tts, text, gen_params, sentences, idx,
                   temp_wav_files, mkdirs, join_result, exit_code,
                   parts_dir_exists, parts, manifest, staged_at_start>>

(***************************************************************************)
(* process_long_text (lines 149-246).                                      *)
(***************************************************************************)
\* lines 166-191: create the parts directory, split the text, choose the path
ProcessLongTextStart ==
    /\ pc = "process_long_text"
    /\ parts_dir_exists' = TRUE
    /\ mkdirs' = IF parts_dir_exists THEN mkdirs ELSE mkdirs + 1
    /\ sentences' = SplitSentences(text)
    /\ pc' = IF Len(sentences') <= 1 THEN "clone_voice" ELSE "segment_loop"
    /\ UNCHANGED <<args, run, tts, text, gen_params, idx, temp_wav_files, calls,
                   join_result, exit_code, parts, manifest, output,
                   staged_at_start>>

SkipPart_Never(k) == FALSE

SkipPart_OwnRun(k) == parts[k] = Some(run)

\* lines 202-205: the part is skipped when its file exists
SkipPart(k) == PartExists(k)

NextSegment_Retry(ok) == IF ok THEN idx + 1 ELSE idx

\* lines 195, 207-220: after the synthesis call has returned, or has raised
\* into the except clause and its continue, the loop takes the next segment
NextSegment(ok) == idx + 1

\* lines 195-220: one iteration of the loop over the segments
SegmentStep ==
    /\ pc = "segment_loop"
    /\ idx <= Len(sentences)
    /\ IF Strip(sentences[idx]) = << >>
       THEN idx' = idx + 1 /\ UNCHANGED <<temp_wav_files, calls, parts>>
       ELSE /\ temp_wav_files' = Append(temp_wav_files, idx)
            /\ IF SkipPart(idx)
               THEN idx' = idx + 1 /\ UNCHANGED <<calls, parts>>
               ELSE \E ok \in BOOLEAN :
                      /\ idx' = NextSegment(ok)
                      /\ calls' = Append(calls, Call(idx, idx, ok))
                      /\ parts' = IF ok THEN [parts EXCEPT ![idx] = Some(run)]
                                  ELSE parts
    /\ UNCHANGED <<args, run, pc, tts, text, gen_params, sentences, mkdirs,
                   join_result, exit_code, parts_dir_exists, manifest, output,
                   staged_at_start>>

ManifestEntries_All(files) == files

ManifestEntries_Directory(files) == SelectSeq([k \in PartIds |-> k], PartExists)

ManifestEntries_Fresh(files) == SelectSeq(files, LAMBDA k : parts[k] = Some(run))

\* lines 226-232: the parts written to input_list.txt
ManifestEntries(files) == SelectSeq(files, PartExists)

PartsAfterConcat_Remove(ok) == IF ok THEN [k \in PartIds |-> None] ELSE parts

PartsAfterConcat_Cleanup(ok) == IF ok THEN parts ELSE [k \in PartIds |-> None]

\* lines 234-246: neither branch touches the part files
PartsAfterConcat(ok) == parts

\* lines 222-246: write the manifest and run ffmpeg's concat; ffmpeg fails on
\* an empty manifest, and may fail on any other; a failure is printed and
\* the function returns normally
Concatenate ==
    /\ pc = "segment_loop"
    /\ idx > Len(sentences)
    /\ LET listed == ManifestEntries(temp_wav_files)
       IN  /\ manifest' = Some(listed)
           /\ \E ok \in BOOLEAN :
                /\ ok => listed # << >>
                /\ join_result' = IF ok THEN "ok" ELSE "failed"
                /\ output' = IF ok THEN Some(run) ELSE output
                /\ parts' = PartsAfterConcat(ok)
    /\ pc' = "exit_check"
    /\ UNCHANGED <<args, run, tts, text, gen_params, sentences, idx,
                   temp_wav_files, calls, mkdirs, exit_code, parts_dir_exists,
                   staged_at_start>>

(***************************************************************************)
(* main, lines 386-396: the exit status.                                   *)
(***************************************************************************)
\* lines 393-396
ExitStatus == IF output # None THEN 0 ELSE 1

ExitCheck ==
    /\ pc = "exit_check"
    /\ Exit(ExitStatus)
    /\ UNCHANGED <<args, run, locals, disk, staged_at_start>>

\* the program is invoked again with the same command line on the same disk
ReRun ==
    /\ pc \in {"exited", "killed"}
    /\ run < MaxRuns
    /\ run' = run + 1
    /\ pc' = "parse_args"
    /\ tts' = "unloaded"
    /\ text' = << >>
    /\ gen_params' = GENERATION_PRESETS["neutral"]
    /\ sentences' = << >>
    /\ idx' = 1
    /\ temp_wav_files' = << >>
    /\ calls' = << >>
    /\ mkdirs' = 0
    /\ join_result' = "none"
    /\ exit_code' = None
    /\ staged_at_start' = {k \in PartIds : PartExists(k)}
    /\ UNCHANGED <<args, disk>>

Next ==
    \/ ParseArgs
    \/ ReadText
    \/ ValidateReference
    \/ DetermineParams
    \/ LoadModel
    \/ ChoosePath
    \/ CloneVoice
    \/ ProcessLongTextStart
    \/ SegmentStep
    \/ Concatenate
    \/ ExitCheck
    \/ ReRun

Spec == Init /\ [][Next]_vars

(***************************************************************************)
(* The segmenter alone: process_long_text entered with any text.           *)
(***************************************************************************)
InitSegmenter ==
    /\ \E t \in SegmenterTexts :
         /\ args = CommandLine(GoodReference, Some(t), None, NoOverrides)
         /\ text = t
    /\ run = 1
    /\ pc = "process_long_text"
    /\ tts = "loaded"
    /\ gen_params = GENERATION_PRESETS["neutral"]
    /\ sentences = << >>
    /\ idx = 1
    /\ temp_wav_files = << >>
    /\ calls = << >>
    /\ mkdirs = 0
    /\ join_result = "none"
    /\ exit_code = None
    /\ NoStagingDir
    /\ output = None

NextSegmenter == ProcessLongTextStart

SpecSegmenter == InitSegmenter /\ [][NextSegmenter]_vars

(***************************************************************************)
(* Preset resolution alone: main at line 348 with any preset and overrides.*)
(***************************************************************************)
\* values of --temperature, --repetition_penalty and --speed, in hundredths
OverrideValues == {0, 50, 150}

Overrides == {None} \cup {Some(v) : v \in OverrideValues}

PresetArgs ==
    {CommandLine(GoodReference, Some(Sent), None,
                 [preset |-> p, temperature |-> t, repetition_penalty |-> r,
                  speed |-> s]) :
        p \in {None} \cup {Some(n) : n \in PresetNames},
        t \in Overrides, r \in Overrides, s \in Overrides}

InitPreset ==
    /\ args \in PresetArgs
    /\ run = 1
    /\ pc = "resolve_params"
    /\ tts = "unloaded"
    /\ text = args.text[1]
    /\ gen_params = GENERATION_PRESETS["neutral"]
    /\ sentences = << >>
    /\ idx = 1
    /\ temp_wav_files = << >>
    /\ calls = << >>
    /\ mkdirs = 0
    /\ join_result = "none"
    /\ exit_code = None
    /\ NoStagingDir
    /\ output = None

NextPreset == DetermineParams

SpecPreset == InitPreset /\ [][NextPreset]_vars

(***************************************************************************)
(* A short text with any preset and overrides, from the command line to    *)
(* the synthesis call.                                                     *)
(***************************************************************************)
InitParams ==
    /\ args \in PresetArgs
    /\ run = 1
    /\ FreshLocals
    /\ NoStagingDir
    /\ output = None

NextParams ==
    \/ ParseArgs
    \/ ReadText
    \/ ValidateReference
    \/ DetermineParams
    \/ LoadModel
    \/ ChoosePath
    \/ CloneVoice
    \/ ExitCheck

SpecParams == InitParams /\ [][NextParams]_vars

(***************************************************************************)
(* Termination and resumption: the process may be terminated from outside  *)
(* at any point of an invocation, and is invoked again with the same       *)
(* command line.  A termination inside the write of the output file is     *)
(* left out: only the part files carry the resumption.                     *)
(***************************************************************************)
ResumeArgs ==
    {CommandLine(GoodReference, Some(t), None, NoOverrides) : t \in PipelineTexts}

InitResume ==
    /\ args \in ResumeArgs
    /\ run = 1
    /\ FreshLocals
    /\ NoStagingDir
    /\ output = None

\* the process is terminated between two steps; the disk stays as it is
Kill ==
    /\ pc \notin {"exited", "killed"}
    /\ pc' = "killed"
    /\ UNCHANGED <<args, run, locals, exit_code, disk, staged_at_start>>

\* lines 207-214: the process is terminated while tts_to_file is writing the
\* part of the current segment
KillWhileWriting ==
    /\ pc = "segment_loop"
    /\ idx <= Len(sentences)
    /\ Strip(sentences[idx]) # << >>
    /\ ~SkipPart(idx)
    /\ temp_wav_files' = Append(temp_wav_files, idx)
    /\ \E content \in {Empty(run), Truncated(run)} :
         parts' = [parts EXCEPT ![idx] = content]
    /\ pc' = "killed"
    /\ UNCHANGED <<args, run, tts, text, gen_params, sentences, idx, calls,
                   mkdirs, join_result, exit_code, parts_dir_exists, manifest,
                   output, staged_at_start>>

NextResume ==
    \/ ParseArgs
    \/ ReadText
    \/ ValidateReference
    \/ DetermineParams
    \/ LoadModel
    \/ ChoosePath
    \/ CloneVoice
    \/ ProcessLongTextStart
    \/ SegmentStep
    \/ Concatenate
    \/ ExitCheck
    \/ Kill
    \/ KillWhileWriting
    \/ ReRun

SpecResume == InitResume /\ [][NextResume]_vars

(***************************************************************************)
(* Retrying: process_long_text is entered again and again with the same    *)
(* text on the same disk.  Invocations from MaxRuns on share the number    *)
(* MaxRuns.                                                                *)
(***************************************************************************)
\* texts of two or more long sentences: they take the loop over the parts
RetryTexts ==
    {t \in {Flatten(bs) : bs \in SeqsUpTo({Para}, MaxPipeBlocks)} :
        Len(t) > LONG_TEXT_THRESHOLD}

InitRetry ==
    /\ \E t \in RetryTexts :
         /\ args = CommandLine(GoodReference, Some(t), None, NoOverrides)
         /\ text = t
    /\ run = 1
    /\ pc = "process_long_text"
    /\ tts = "loaded"
    /\ gen_params = GENERATION_PRESETS["neutral"]
    /\ sentences = << >>
    /\ idx = 1
    /\ temp_wav_files = << >>
    /\ calls = << >>
    /\ mkdirs = 0
    /\ join_result = "none"
    /\ exit_code = None
    /\ NoStagingDir
    /\ output = None

\* process_long_text has returned and is called again with the same
\* arguments
Reinvoke ==
    /\ pc = "exit_check"
    /\ run' = IF run < MaxRuns THEN run + 1 ELSE run
    /\ pc' = "process_long_text"
    /\ sentences' = << >>
    /\ idx' = 1
    /\ temp_wav_files' = << >>
    /\ calls' = << >>
    /\ mkdirs' = 0
    /\ join_result' = "none"
    /\ staged_at_start' = {k \in PartIds : PartExists(k)}
    /\ UNCHANGED <<args, tts, text, gen_params, exit_code, disk>>

NextRetry ==
    \/ ProcessLongTextStart
    \/ SegmentStep
    \/ Concatenate
    \/ Reinvoke

\* the synthesis call on segment k returns and leaves its part file
SynthesisSucceeds(k) == idx = k /\ SegmentStep /\ parts'[k] # None

\* the program and its caller keep going, and a segment whose synthesis is
\* called again and again is synthesized in the end
RetryFairness ==
    /\ WF_vars(NextRetry)
    /\ \A k \in PartIds : SF_vars(SynthesisSucceeds(k))

SpecRetry == InitRetry /\ [][NextRetry]_vars /\ RetryFairness

(***************************************************************************)
(* Another text on the same disk: the first invocation has a text of       *)
(* sentences of the letter a, every later one a text of sentences of the   *)
(* letter b, with the same output path.                                    *)
(***************************************************************************)
\* a sentence as long as Para, of another letter
OtherPara == Append(Repeat("b", Len(Para) - 1), ".")

FirstTexts == {Flatten(bs) : bs \in SeqsUpTo({Para}, MaxPipeBlocks)}

NewTexts == {Flatten(bs) : bs \in SeqsUpTo({OtherPara}, MaxPipeBlocks)} \ {<< >>}

InitNewText ==
    /\ args \in {CommandLine(GoodReference, Some(t), None, NoOverrides) :
                    t \in FirstTexts}
    /\ run = 1
    /\ FreshLocals
    /\ NoStagingDir
    /\ output = None

\* the program is invoked again on the same disk with another --text
ReRunNewText ==
    /\ pc = "exited"
    /\ run < MaxRuns
    /\ run' = run + 1
    /\ \E t \in NewTexts \ {args.text[1]} : args' = [args EXCEPT !.text = Some(t)]
    /\ pc' = "parse_args"
    /\ tts' = "unloaded"
    /\ text' = << >>
    /\ gen_params' = GENERATION_PRESETS["neutral"]
    /\ sentences' = << >>
    /\ idx' = 1
    /\ temp_wav_files' = << >>
    /\ calls' = << >>
    /\ mkdirs' = 0
    /\ join_result' = "none"
    /\ exit_code' = None
    /\ staged_at_start' = {k \in PartIds : PartExists(k)}
    /\ UNCHANGED disk

NextNewText ==
    \/ ParseArgs
    \/ ReadText
    \/ ValidateReference
    \/ DetermineParams
    \/ LoadModel
    \/ ChoosePath
    \/ CloneVoice
    \/ ProcessLongTextStart
    \/ SegmentStep
    \/ Concatenate
    \/ ExitCheck
    \/ ReRunNewText

SpecNewText == InitNewText /\ [][NextNewText]_vars

(***************************************************************************)
(* Properties.                                                             *)
(***************************************************************************)
\* the invocation has returned from clone_voice or process_long_text
Finished == pc \in {"exit_check", "exited"}

\* the indices of the synthesis calls that raised on a segment
RaisedSegments ==
    {calls[j].seg : j \in {m \in 1..Len(calls) : calls[m].seg > 0 /\ ~calls[m].returned}}

Elements(q) == {q[j] : j \in 1..Len(q)}

StrictlyIncreasing(q) == \A j \in 1..(Len(q) - 1) : q[j] < q[j + 1]

\* C1: an invocation makes no synthesis call for a segment whose part file
\* existed when the invocation began, whatever set of parts that was; every
\* call on a segment is for a part that was missing.
C1_ResumeSkipsStaged ==
    \A j \in 1..Len(calls) :
        calls[j].seg > 0 =>
            /\ calls[j].seg \notin staged_at_start
            /\ calls[j].file_path = calls[j].seg

\* a second invocation on three segments finds parts 1 and 2, and calls
\* synthesis for segment 3 only
C1_Witness ==
    /\ run = 2
    /\ pc = "exited"
    /\ Len(sentences) = 3
    /\ staged_at_start = {1, 2}
    /\ Len(calls) = 1
    /\ calls[1].seg = 3

\* C2: once a synthesis call on a segment has raised and the invocation has
\* returned from process_long_text, the loop has passed every segment, the
\* manifest has been written, the failed segment has no part file, and the
\* manifest lists exactly the existing parts of the text's segments in
\* strictly increasing order.
C2_FailedSegmentSkipped ==
    (Finished /\ RaisedSegments # {}) =>
        /\ idx = Len(sentences) + 1
        /\ temp_wav_files = [k \in 1..Len(sentences) |-> k]
        /\ join_result # "none"
        /\ manifest # None
        /\ \A k \in RaisedSegments : ~PartExists(k) /\ k \notin Elements(manifest[1])
        /\ StrictlyIncreasing(manifest[1])
        /\ Elements(manifest[1]) = {k \in 1..Len(sentences) : PartExists(k)}

\* of three segments the second raised; the manifest lists parts 1 and 3
C2_Witness ==
    /\ pc = "exited"
    /\ Len(sentences) = 3
    /\ RaisedSegments = {2}
    /\ manifest = Some(<<1, 3>>)

\* C3: with a text of at most 500 characters the invocation never creates
\* the parts directory and never enters process_long_text, and once it has
\* loaded the model and returned it has made exactly one synthesis call, on
\* the whole text against the output path.
C3_ShortTextSingleShot ==
    (pc \notin {"parse_args", "read_text"} /\ Len(text) <= LONG_TEXT_THRESHOLD) =>
        /\ mkdirs = 0
        /\ pc \notin {"process_long_text", "segment_loop"}
        /\ \A j \in 1..Len(calls) : calls[j].file_path = 0 /\ calls[j].seg = 0
        /\ (Finished /\ tts = "loaded") => Len(calls) = 1

\* a text of exactly 500 characters synthesized in one call
C3_Witness ==
    /\ pc = "exited"
    /\ Len(text) = LONG_TEXT_THRESHOLD
    /\ Len(calls) = 1
    /\ calls[1].file_path = 0
    /\ mkdirs = 0

\* C4: when process_long_text finds at most one segment, the invocation
\* makes exactly one synthesis call, against the output path, and creates no
\* parts directory.
C4_SingleSegmentNoStagingDir ==
    (Finished /\ tts = "loaded" /\ Len(text) > LONG_TEXT_THRESHOLD /\ Len(sentences) <= 1) =>
        /\ Len(calls) = 1
        /\ calls[1].file_path = 0
        /\ mkdirs = 0

\* process_long_text has split the text
Segmented == pc \in {"clone_voice", "segment_loop"}

\* C5: every segment but the last is at least max_chunk_length (250)
\* characters long, and a text of at most that length has at most one
\* segment.
C5_SegmentsReachMinimumLength ==
    Segmented =>
        /\ \A j \in 1..(Len(sentences) - 1) : Len(sentences[j]) >= max_chunk_length
        /\ Len(text) <= max_chunk_length => Len(sentences) <= 1

AllSpace(s, lo, hi) == \A k \in lo..hi : s[k] \in Whitespace

RECURSIVE Covers(_, _, _, _)
\* s from position pos on is segs[j], segs[j+1], ... in this order, with
\* nothing but whitespace before, between and after them
Covers(s, pos, segs, j) ==
    IF j > Len(segs) THEN AllSpace(s, pos, Len(s))
    ELSE \E p \in pos..Len(s) :
            /\ AllSpace(s, pos, p - 1)
            /\ p + Len(segs[j]) - 1 <= Len(s)
            /\ SubSeq(s, p, p + Len(segs[j]) - 1) = segs[j]
            /\ Covers(s, p + Len(segs[j]), segs, j + 1)

\* C6: the segments are non-empty and the text is the segments in order,
\* separated and surrounded by whitespace only.
C6_SegmentsCoverText ==
    Segmented =>
        /\ \A j \in 1..Len(sentences) : sentences[j] # << >>
        /\ Covers(text, 1, sentences, 1)

\* a text over the threshold split in two, with whitespace trimmed away
C6_Witness ==
    /\ Segmented
    /\ Len(text) > LONG_TEXT_THRESHOLD
    /\ Len(sentences) = 2
    /\ Len(sentences[1]) + Len(sentences[2]) < Len(text)

\* C7: the exit status is 0 or 1, and it is 0 exactly when this invocation
\* wrote the output file.
C7_ExitCodeIffOutputProduced ==
    pc = "exited" =>
        /\ exit_code \in {Some(0), Some(1)}
        /\ exit_code = Some(0) <=> output = Some(run)

\* C8: when the manifest of this invocation lists no part, the join fails,
\* the invocation does not end in success and it writes no output file.
C8_EmptyJoinFailsRun ==
    (pc = "exited" /\ join_result # "none" /\ manifest = Some(<< >>)) =>
        /\ join_result = "failed"
        /\ exit_code # Some(0)
        /\ output # Some(run)

\* the triple of a preset name, or of no preset, as the claim lists them
C9_PresetTriple(p) ==
    IF p = None THEN <<75, 1000, 100>>
    ELSE CASE p[1] = "stable" -> <<10, 2000, 100>>
           [] p[1] = "neutral" -> <<75, 1000, 100>>
           [] p[1] = "expressive" -> <<85, 500, 100>>
           [] p[1] = "extreme" -> <<95, 200, 100>>

C9_Field(override, fallback) == IF override # None THEN override[1] ELSE fallback

\* C9: each resolved field is the explicit override if given, otherwise the
\* named preset's value, otherwise the neutral value; preset expressive with
\* speed 1.5 resolves to (0.85, 5.0, 1.5).
C9_PresetResolution ==
    pc = "load_model" =>
        /\ gen_params.temperature =
               C9_Field(args.temperature, C9_PresetTriple(args.preset)[1])
        /\ gen_params.repetition_penalty =
               C9_Field(args.repetition_penalty, C9_PresetTriple(args.preset)[2])
        /\ gen_params.speed = C9_Field(args.speed, C9_PresetTriple(args.preset)[3])
        /\ (/\ args.preset = Some("expressive")
            /\ args.temperature = None
            /\ args.repetition_penalty = None
            /\ args.speed = Some(150))
           => gen_params = [temperature |-> 85, repetition_penalty |-> 500,
                            speed |-> 150]

\* preset expressive with the speed overridden has been resolved
C9_Witness ==
    /\ pc = "load_model"
    /\ args.preset = Some("expressive")
    /\ args.temperature = None
    /\ args.repetition_penalty = None
    /\ args.speed = Some(150)
    /\ gen_params.speed = 150

\* C10: the step in which the join fails leaves every part file as it was.
C10_JoinFailureKeepsParts ==
    [][(join_result = "none" /\ join_result' = "failed") => parts' = parts]_vars

\* a join has failed with part files on disk
C10_Witness ==
    /\ join_result = "failed"
    /\ \E k \in PartIds : PartExists(k)

\* C11 as stated: a step leaves every file of the parts directory that
\* exists, part file or input_list.txt, as it is.
C11_StagingAppendOnly ==
    [][/\ \A k \in PartIds : PartExists(k) => parts'[k] = parts[k]
       /\ manifest # None => manifest' = manifest]_vars

\* C11 amended: a step leaves every existing part file as it is; the parts
\* directory and its part files are never removed.
C11_PartsAppendOnly ==
    [][/\ \A k \in PartIds : PartExists(k) => parts'[k] = parts[k]
       /\ parts_dir_exists => parts_dir_exists']_vars

\* a second invocation has kept part 1 of the first, has added part 2 and
\* has written input_list.txt again with another content
C11_Witness ==
    /\ run = 2
    /\ pc = "exited"
    /\ staged_at_start = {1}
    /\ parts[1] = Some(1)
    /\ parts[2] = Some(2)
    /\ manifest = Some(<<1, 2>>)

\* the segments of the synthesis calls, in the order of the calls
CallSegments == [j \in 1..Len(calls) |-> calls[j].seg]

CompleteAtStart(k) == \E r \in 0..(run - 1) : parts[k] = Some(r)

\* the invocation has gone through the loop over the segments
LoopDone == pc \in {"exit_check", "exited"} /\ join_result # "none"

\* C13: an invocation that follows a terminated or ended one and goes
\* through the loop calls synthesis for exactly the segments whose part file
\* was not complete when it began.
C13_ResumeAfterKill ==
    (run > 1 /\ LoopDone) =>
        \A k \in 1..Len(sentences) :
            k \in Elements(CallSegments) <=> ~CompleteAtStart(k)

\* C14: the loop skips the current segment only if its part file exists and
\* is not empty.
C14_EmptyPartRegenerated ==
    (pc = "segment_loop" /\ idx <= Len(sentences) /\ SkipPart(idx)) =>
        \E r \in 0..run : parts[idx] \in {Some(r), Truncated(r)}

\* every segment has its part file and input_list.txt, written by this
\* invocation, lists the parts of all segments in order
AllStagedAndListed ==
    /\ join_result # "none"
    /\ \A k \in 1..Len(sentences) : PartExists(k)
    /\ manifest = Some([k \in 1..Len(sentences) |-> k])

\* C15: when process_long_text is entered again and again and every
\* segment's synthesis succeeds in the end, an invocation over several
\* segments is followed by one that leaves every segment's part file and a
\* manifest listing all of them in order; no invocation calls synthesis for
\* a segment whose part file existed when it began.
C15_RetriesComplete ==
    /\ [](\A j \in 1..Len(calls) : calls[j].seg \notin staged_at_start)
    /\ (pc = "segment_loop") ~> AllStagedAndListed

\* the second invocation found parts 1 and 3, synthesized segment 2 after
\* its failure in the first, and listed all three
C15_Witness ==
    /\ run = 2
    /\ staged_at_start = {1, 3}
    /\ CallSegments = <<2>>
    /\ AllStagedAndListed

\* the command line has one of the input or configuration errors: no
\* reference, no text, both texts, a missing text file, an empty text, a
\* missing reference file, an unsupported suffix, an unknown preset
C16_InputError ==
    \/ args.reference = None
    \/ args.text \in {None, Some(<< >>)} /\ args.text_file = None
    \/ args.text \notin {None, Some(<< >>)} /\ args.text_file # None
    \/ args.text_file # None /\ args.text_file[1].state = "missing"
    \/ /\ args.text_file # None
       /\ args.text_file[1].state = "ok"
       /\ \A k \in 1..Len(args.text_file[1].content) :
             args.text_file[1].content[k] \in Whitespace
    \/ args.reference # None /\ ~args.reference[1].exists
    \/ args.reference # None
          /\ args.reference[1].ext \notin {".wav", ".mp3", ".flac", ".ogg", ".m4a",
                                          ".WAV"}
    \/ args.preset # None
          /\ args.preset[1] \notin {"stable", "neutral", "expressive", "extreme"}

\* C16: with an input or configuration error the invocation ends in the
\* validation, with a status other than 0; it never loads the model, makes
\* no synthesis call and creates no parts directory.
C16_ErrorsAbortBeforeSynthesis ==
    C16_InputError =>
        /\ pc \in {"parse_args", "read_text", "validate_reference", "exited"}
        /\ pc = "exited" => exit_code \in {Some(1), Some(ARGPARSE_ERROR_STATUS)}
        /\ tts = "unloaded"
        /\ calls = << >>
        /\ mkdirs = 0
        /\ ~parts_dir_exists

\* a reference file with an unsupported suffix has ended the invocation
C16_Witness ==
    /\ pc = "exited"
    /\ args.reference = Some([exists |-> TRUE, ext |-> ".txt"])
    /\ args.text = Some(Sent)
    /\ args.text_file = None
    /\ exit_code = Some(1)
    /\ tts = "unloaded"

\* a value of --temperature, --repetition_penalty or --speed, in
\* hundredths, is outside the range of its parameter
C17_OutOfRange ==
    \/ args.temperature # None /\ args.temperature[1] \notin 1..100
    \/ args.repetition_penalty # None /\ args.repetition_penalty[1] <= 0
    \/ args.speed # None /\ args.speed[1] <= 0

\* C17: every synthesis call gets a temperature in (0, 1], a repetition
\* penalty above 0 and a speed above 0, and a command line with an override
\* outside its range ends in the validation without loading the model.
C17_ParametersInRange ==
    /\ \A j \in 1..Len(calls) :
          /\ calls[j].params.temperature \in 1..100
          /\ calls[j].params.repetition_penalty > 0
          /\ calls[j].params.speed > 0
    /\ C17_OutOfRange =>
          /\ pc \in {"parse_args", "read_text", "validate_reference", "exited"}
          /\ tts = "unloaded"

\* C18: the loop has taken the part paths 1, 2, ... of the segments it has
\* passed, every synthesis call is on one of the paths 1..n of the n
\* segments, and the manifest this invocation writes lists paths of 1..n
\* only, in strictly increasing order; a part above n is not listed.
C18_PartPathsAndManifest ==
    /\ pc = "segment_loop" => temp_wav_files = [k \in 1..(idx - 1) |-> k]
    /\ \A j \in 1..Len(calls) : calls[j].file_path \in 0..Len(sentences)
    /\ LoopDone =>
          /\ temp_wav_files = [k \in 1..Len(sentences) |-> k]
          /\ Elements(manifest[1]) \subseteq 1..Len(sentences)
          /\ StrictlyIncreasing(manifest[1])

\* an invocation over two segments has found part 3 of an earlier text and
\* has listed parts 1 and 2 only
C18_Witness ==
    /\ run > 1
    /\ LoopDone
    /\ Len(sentences) = 2
    /\ PartExists(3)
    /\ manifest = Some(<<1, 2>>)

\* C19: an invocation makes no synthesis call for a segment whose part path
\* held a file of an earlier invocation when it began, whatever text that
\* file was made from, and lists that file in its manifest.
C19_ResumeKeyedByIndex ==
    (run > 1 /\ LoopDone) =>
        \A k \in staged_at_start \cap (1..Len(sentences)) :
            /\ k \notin Elements(CallSegments)
            /\ k \in Elements(manifest[1])
            /\ \E r \in 1..(run - 1) : parts[k] = Some(r)

\* the second invocation, on sentences of the letter b, has kept and listed
\* part 1 made by the first from a sentence of the letter a
C19_Witness ==
    /\ run = 2
    /\ LoopDone
    /\ sentences[1] = OtherPara
    /\ parts[1] = Some(1)
    /\ calls = << >>
    /\ manifest = Some(<<1, 2>>)

====
